---------------------------- MODULE Spec2Model ----------------------------
(***************************************************************************)
(* A model of the nonkycbot trading core: the constant-product AMM pricing *)
(* functions (src/src/utils/amm_pricing.py), the triangular arbitrage      *)
(* polling loop (src/run_cosa_arb.py), the order-size helpers              *)
(* (src/src/nonkyc_client/pricing.py, src/src/utils/notional.py), the list *)
(* of open orders (src/nonkyc_bot/src/engine/order_manager.py) and the     *)
(* risk checks (src/src/engine/risk.py).                                   *)
(*                                                                         *)
(* The single calls of the AMM functions and the polling loop model        *)
(* Decimal values as exact rationals <<n, d>> in lowest terms with d > 0.  *)
(* Their inputs are drawn from sets of values with at most four            *)
(* significant digits, for which Python's 28-digit Decimal context gives   *)
(* the same comparisons as exact arithmetic; the rounding of a quotient in *)
(* its 28th digit is not modelled there.                                   *)
(*                                                                         *)
(* Where a property depends on that rounding (reserves updated by a quote, *)
(* a quantity derived from a quotient), the values are modelled as         *)
(* Python's Decimal computes them: sign, digits and exponent, every result *)
(* rounded half-even to 28 significant digits.                             *)
(***************************************************************************)
EXTENDS Integers, Sequences, FiniteSets, TLC

VARIABLES
    amm_in,      \* the arguments of the AMM calls: amount, pool, token, fee
    amm_calls,   \* the calls of the two swap functions made so far, in order
    amm_quote,   \* the outcome of get_swap_quote, once called
    amm_quote2,  \* the outcome of a second quote for another amount, same pool
    amm_spot,    \* the outcome of calculate_pool_spot_price, once called
    config,      \* run_arbitrage_bot: the configuration loaded at start
    pc,          \* run_arbitrage_bot: the statement about to run
    cycle_count, \* run_arbitrage_bot: cycle_count
    fetch_idx,   \* the position of the for loop over the three pairs
    prices,      \* the dict prices, as a set of <<pair, price>> entries
    eval,        \* rates, amount, profit, profit_ratio and the decision
    orders,      \* the place_order calls of this cycle, in order
    trace,       \* the events of this cycle, in order
    last_outcome, \* how the previous cycle ended
    pool_in,     \* swaps on a pool: the driver, the first pool, the fee, the amount
    pool_now,    \* swaps on a pool: the reserves after the swaps applied so far
    pool_swaps,  \* swaps on a pool: the swaps quoted so far, in order
    px_in,       \* the order-size helpers: the function called and its arguments
    px_calls,    \* the order-size helpers: the calls made so far, in order
    px_stdout,   \* the order-size helpers: the diagnostics printed so far
    size_in,     \* trade sizes: the pool, max_price_impact and fee_rate passed
    size_out,    \* trade sizes: the dict estimate_optimal_trade_size returned
    size_quote,  \* trade sizes: the quote for a swap of an estimated size
    open_orders, \* OrderManager.open_orders
    om_last,     \* OrderManager: the last call, its outcome, the list before it
    limits,      \* RiskManager.limits
    kill_switch_triggered, \* RiskManager.kill_switch_triggered
    risk_last    \* RiskManager: the last call, its arguments and its result

amm_vars == <<amm_in, amm_calls, amm_quote, amm_quote2, amm_spot>>
bot_vars == <<config, pc, cycle_count, fetch_idx, prices, eval, orders, trace,
              last_outcome>>
pool_vars == <<pool_in, pool_now, pool_swaps>>
pricing_vars == <<px_in, px_calls, px_stdout>>
size_vars == <<size_in, size_out, size_quote>>
om_vars == <<open_orders, om_last>>
risk_vars == <<limits, kill_switch_triggered, risk_last>>
vars == <<amm_in, amm_calls, amm_quote, amm_quote2, amm_spot, config, pc, cycle_count,
          fetch_idx, prices, eval, orders, trace, last_outcome, pool_in, pool_now,
          pool_swaps, px_in, px_calls, px_stdout, size_in, size_out, size_quote,
          open_orders, om_last, limits, kill_switch_triggered, risk_last>>
\* What the steps of one part of the program leave alone: the other parts.
other_than_amm == <<bot_vars, pool_vars, pricing_vars, size_vars, om_vars, risk_vars>>
other_than_bot == <<amm_vars, pool_vars, pricing_vars, size_vars, om_vars, risk_vars>>
other_than_pool == <<amm_vars, bot_vars, pricing_vars, size_vars, om_vars, risk_vars>>
other_than_pricing == <<amm_vars, bot_vars, pool_vars, size_vars, om_vars, risk_vars>>
other_than_size == <<amm_vars, bot_vars, pool_vars, pricing_vars, om_vars, risk_vars>>
other_than_om == <<amm_vars, bot_vars, pool_vars, pricing_vars, size_vars, risk_vars>>
other_than_risk == <<amm_vars, bot_vars, pool_vars, pricing_vars, size_vars, om_vars>>

---------------------------------------------------------------------------
(* Decimal arithmetic, as exact rationals.                                 *)

Abs(n) == IF n < 0 THEN -n ELSE n

RECURSIVE GCD(_, _)
GCD(a, b) == IF b = 0 THEN a ELSE GCD(b, a % b)

Norm(n, d) ==
    LET g == GCD(Abs(n), Abs(d))
        s == IF d < 0 THEN -1 ELSE 1
    IN  <<(s * n) \div g, (s * d) \div g>>

Dec(n) == <<n, 1>>
Frac(n, d) == Norm(n, d)
Zero == Dec(0)
One == Dec(1)
Hundred == Dec(100)

RMul(x, y) ==
    LET g1 == GCD(Abs(x[1]), y[2])
        g2 == GCD(Abs(y[1]), x[2])
    IN  IF x[1] = 0 \/ y[1] = 0 THEN Zero
        ELSE <<(x[1] \div g1) * (y[1] \div g2), (x[2] \div g2) * (y[2] \div g1)>>

RAdd(x, y) ==
    LET g == GCD(x[2], y[2])
    IN  Norm(x[1] * (y[2] \div g) + y[1] * (x[2] \div g), (x[2] \div g) * y[2])

RNeg(x) == <<-x[1], x[2]>>
RSub(x, y) == RAdd(x, RNeg(y))
RAbs(x) == <<Abs(x[1]), x[2]>>
RInv(x) == IF x[1] < 0 THEN <<-x[2], -x[1]>> ELSE <<x[2], x[1]>>
\* x / y for y # 0 (the callers raise the Decimal error for y = 0)
RDiv(x, y) == RMul(x, RInv(y))

RLt(x, y) == RSub(x, y)[1] < 0
\* a/b < c/d for b, d > 0, by the integer parts and then the reciprocals of
\* the fractional parts: no product is formed, so long operands compare.
RECURSIVE FracLess(_, _, _, _)
FracLess(a, b, c, d) ==
    IF a \div b # c \div d THEN a \div b < c \div d
    ELSE IF c % d = 0 THEN FALSE
    ELSE IF a % b = 0 THEN TRUE
    ELSE FracLess(d, c % d, b, a % b)
RLess(x, y) == FracLess(x[1], x[2], y[1], y[2])
RLe(x, y) == RSub(x, y)[1] <= 0
RGt(x, y) == RLt(y, x)
RGe(x, y) == RLe(y, x)

\* The outcome of a call: a returned value or a raised exception.
Ret(v) == [kind |-> "value", val |-> v]
Raise(e) == [kind |-> e, val |-> Zero]

\* Decimal's x / y: DivisionByZero for x # 0, y = 0; InvalidOperation for 0 / 0.
DecimalDivide(x, y) ==
    IF y[1] = 0
    THEN (IF x[1] = 0 THEN Raise("InvalidOperation") ELSE Raise("DivisionByZero"))
    ELSE Ret(RDiv(x, y))

---------------------------------------------------------------------------
(* Decimal arithmetic in Python's default context: every result is rounded *)
(* half-even to 28 significant digits.  A value is a sign, a coefficient   *)
(* (its digits, most significant first, no leading zero) and an exponent.  *)
(* The loops over the digits are split in halves, so that the depth of an  *)
(* evaluation grows with the logarithm of the number of digits.            *)

\* decimal.getcontext().prec, the default context the modules compute in.
DecimalPrec == 28

\* The element of a one-element set: in Only({F(u) : u \in {e}}) the operand
\* e is evaluated once, before F is.
Only(S) == CHOOSE r \in S : TRUE

Zeros(n) == [i \in 1..n |-> 0]
PadLeft(s, n) == Zeros(n - Len(s)) \o s

\* Coefficients: the digits of a natural number; <<>> is 0.
CoefStrip(s) ==
    IF \A i \in 1..Len(s) : s[i] = 0 THEN <<>>
    ELSE SubSeq(s, CHOOSE i \in 1..Len(s) : s[i] # 0 /\ \A j \in 1..(i - 1) : s[j] = 0,
                Len(s))

RECURSIVE IntDigits(_)
IntDigits(n) == IF n = 0 THEN <<>> ELSE Append(IntDigits(n \div 10), n % 10)

\* -1, 0, 1 as a < b, a = b, a > b (a and b without leading zeros)
CoefCmp(a, b) ==
    IF Len(a) # Len(b) THEN (IF Len(a) < Len(b) THEN -1 ELSE 1)
    ELSE IF a = b THEN 0
    ELSE LET k == CHOOSE i \in 1..Len(a) : a[i] # b[i] /\ \A j \in 1..(i - 1) : a[j] = b[j]
         IN  IF a[k] < b[k] THEN -1 ELSE 1

\* Digits lo..hi of a + b, from the right: st is <<digits so far, carry>>.
RECURSIVE AddRange(_, _, _, _, _)
AddRange(a, b, lo, hi, st) ==
    IF lo > hi THEN st
    ELSE IF lo = hi
    THEN <<<<(a[lo] + b[lo] + st[2]) % 10>> \o st[1], (a[lo] + b[lo] + st[2]) \div 10>>
    ELSE Only({AddRange(a, b, lo, (lo + hi) \div 2, s) :
                 s \in {AddRange(a, b, (lo + hi) \div 2 + 1, hi, st)}})
CoefAdd(a, b) ==
    LET n == IF Len(a) > Len(b) THEN Len(a) ELSE Len(b)
    IN  Only({IF r[2] = 0 THEN r[1] ELSE <<r[2]>> \o r[1] :
                r \in {Only({AddRange(u, v, 1, n, <<<<>>, 0>>) :
                               u \in {PadLeft(a, n)}, v \in {PadLeft(b, n)}})}})

\* Digits lo..hi of a - b, from the right: st is <<digits so far, borrow>>.
RECURSIVE SubRange(_, _, _, _, _)
SubRange(a, b, lo, hi, st) ==
    IF lo > hi THEN st
    ELSE IF lo = hi
    THEN <<<<(a[lo] - b[lo] - st[2] + 10) % 10>> \o st[1],
           IF a[lo] - b[lo] - st[2] < 0 THEN 1 ELSE 0>>
    ELSE Only({SubRange(a, b, lo, (lo + hi) \div 2, s) :
                 s \in {SubRange(a, b, (lo + hi) \div 2 + 1, hi, st)}})
\* a - b for a >= b
CoefSub(a, b) ==
    Only({CoefStrip(SubRange(u, v, 1, Len(u), <<<<>>, 0>>)[1]) :
            u \in {a}, v \in {PadLeft(b, Len(a))}})

\* Digits lo..hi of a * m for a digit m, from the right.
RECURSIVE MulRange(_, _, _, _, _)
MulRange(a, m, lo, hi, st) ==
    IF lo > hi THEN st
    ELSE IF lo = hi
    THEN <<<<(a[lo] * m + st[2]) % 10>> \o st[1], (a[lo] * m + st[2]) \div 10>>
    ELSE Only({MulRange(a, m, lo, (lo + hi) \div 2, s) :
                 s \in {MulRange(a, m, (lo + hi) \div 2 + 1, hi, st)}})
CoefMulDigit(a, m) ==
    LET r == Only({MulRange(u, m, 1, Len(u), <<<<>>, 0>>) : u \in {a}})
    IN  IF m = 0 THEN <<>> ELSE IF r[2] = 0 THEN r[1] ELSE <<r[2]>> \o r[1]

\* a * b by the digits lo..hi of b, from the left: acc is the product so far.
RECURSIVE ProductRange(_, _, _, _, _)
ProductRange(a, b, lo, hi, acc) ==
    IF lo > hi THEN acc
    ELSE IF lo = hi
    THEN CoefAdd(IF acc = <<>> THEN <<>> ELSE Append(acc, 0), CoefMulDigit(a, b[lo]))
    ELSE Only({ProductRange(a, b, (lo + hi) \div 2 + 1, hi, s) :
                 s \in {ProductRange(a, b, lo, (lo + hi) \div 2, acc)}})
CoefMul(a, b) == Only({ProductRange(u, v, 1, Len(v), <<>>) : u \in {a}, v \in {b}})

\* How often b fits in rem (at most 9 times), and what is left.
RECURSIVE Fit(_, _, _)
Fit(rem, b, d) ==
    IF CoefCmp(rem, b) < 0 THEN <<d, rem>>
    ELSE Only({Fit(r, b, d + 1) : r \in {CoefSub(rem, b)}})

\* Long division by the digits lo..hi of a: st is <<quotient, remainder>>.
RECURSIVE DivRange(_, _, _, _, _)
DivRange(a, b, lo, hi, st) ==
    IF lo > hi THEN st
    ELSE IF lo = hi
    THEN Only({<<Append(st[1], f[1]), f[2]>> :
                 f \in {Fit(CoefStrip(Append(st[2], a[lo])), b, 0)}})
    ELSE Only({DivRange(a, b, (lo + hi) \div 2 + 1, hi, s) :
                 s \in {DivRange(a, b, lo, (lo + hi) \div 2, st)}})
\* <<quotient, remainder>> of a by b # 0
CoefDivMod(a, b) ==
    Only({<<CoefStrip(r[1]), r[2]>> :
            r \in {Only({DivRange(u, v, 1, Len(u), <<<<>>, <<>>>>) : u \in {a}, v \in {b}})}})

DZero == [sign |-> 0, coef |-> <<>>, exp |-> 0]

\* The value with the trailing zeros of its coefficient moved to the exponent.
DNorm(sign, coef, exp) ==
    Only({IF sign = 0 \/ \A i \in 1..Len(c) : c[i] = 0 THEN DZero
          ELSE LET last == CHOOSE i \in 1..Len(c) :
                              c[i] # 0 /\ \A j \in (i + 1)..Len(c) : c[j] = 0
               IN  [sign |-> sign, coef |-> CoefStrip(SubSeq(c, 1, last)),
                    exp |-> exp + (Len(c) - last)] :
            c \in {coef}})

\* Rounding to the context's precision, ROUND_HALF_EVEN; sticky: digits
\* below the coefficient were dropped and were not all zero.
DRound(sign, coef, exp, sticky) ==
    Only({IF Len(c) <= DecimalPrec THEN DNorm(sign, c, exp)
          ELSE LET keep == SubSeq(c, 1, DecimalPrec)
                   rest == SubSeq(c, DecimalPrec + 1, Len(c))
                   below == sticky \/ \E i \in 2..Len(rest) : rest[i] # 0
                   up == \/ rest[1] > 5
                         \/ rest[1] = 5 /\ (below \/ keep[DecimalPrec] % 2 = 1)
               IN  DNorm(sign, IF up THEN CoefAdd(keep, <<1>>) ELSE keep,
                         exp + Len(rest)) :
            c \in {coef}})

\* The sum of x and y with the sign of y replaced by sy.
DSum(x, y, sy) ==
    Only({LET e == IF u.exp < v.exp THEN u.exp ELSE v.exp
              a == CoefStrip(u.coef \o Zeros(u.exp - e))
              b == CoefStrip(v.coef \o Zeros(v.exp - e))
              c == CoefCmp(a, b)
          IN  IF u.sign = 0 THEN DRound(sy, v.coef, v.exp, FALSE)
              ELSE IF sy = 0 THEN DRound(u.sign, u.coef, u.exp, FALSE)
              ELSE IF u.sign = sy THEN DRound(u.sign, CoefAdd(a, b), e, FALSE)
              ELSE IF c = 0 THEN DZero
              ELSE IF c > 0 THEN DRound(u.sign, CoefSub(a, b), e, FALSE)
              ELSE DRound(sy, CoefSub(b, a), e, FALSE) :
            u \in {x}, v \in {y}})

DAdd(x, y) == DSum(x, y, y.sign)
DSub(x, y) == DSum(x, y, -y.sign)
DMul(x, y) ==
    Only({IF u.sign = 0 \/ v.sign = 0 THEN DZero
          ELSE DRound(u.sign * v.sign, CoefMul(u.coef, v.coef), u.exp + v.exp, FALSE) :
            u \in {x}, v \in {y}})
\* x / y for y # 0 (the callers raise the Decimal error for y = 0): the
\* quotient is computed to one digit more than the precision.
DQuot(x, y) ==
    Only({LET z == IF Len(v.coef) + DecimalPrec + 1 > Len(u.coef)
                   THEN Len(v.coef) + DecimalPrec + 1 - Len(u.coef) ELSE 0
          IN  IF u.sign = 0 \/ v.sign = 0 THEN DZero
              ELSE Only({DRound(u.sign * v.sign, qr[1], u.exp - v.exp - z,
                                qr[2] # <<>>) :
                           qr \in {CoefDivMod(u.coef \o Zeros(z), v.coef)}}) :
            u \in {x}, v \in {y}})

\* -1, 0, 1 as x < y, x = y, x > y: comparisons are exact.
DCmp(x, y) ==
    Only({LET e == IF u.exp < v.exp THEN u.exp ELSE v.exp
              a == CoefStrip(u.coef \o Zeros(u.exp - e))
              b == CoefStrip(v.coef \o Zeros(v.exp - e))
          IN  IF u.sign # v.sign THEN (IF u.sign < v.sign THEN -1 ELSE 1)
              ELSE IF u.sign = 0 THEN 0
              ELSE u.sign * CoefCmp(a, b) :
            u \in {x}, v \in {y}})
DLt(x, y) == DCmp(x, y) < 0
DLe(x, y) == DCmp(x, y) <= 0
DGt(x, y) == DCmp(x, y) > 0
DGe(x, y) == DCmp(x, y) >= 0

\* Decimal("n") for an integer n, and Decimal of a decimal fraction n / 10^k.
DInt(n) == DNorm(IF n < 0 THEN -1 ELSE IF n = 0 THEN 0 ELSE 1,
                 IntDigits(IF n < 0 THEN -n ELSE n), 0)
DDec(n, k) == DNorm(IF n < 0 THEN -1 ELSE IF n = 0 THEN 0 ELSE 1,
                    IntDigits(IF n < 0 THEN -n ELSE n), -k)

---------------------------------------------------------------------------
(* src/src/utils/amm_pricing.py                                            *)

\* Variants of the two swap functions with one plausible slip each.

\* The fee is left out of the denominator.
output_fee_not_in_denominator(amount_in, reserve_in, reserve_out, fee_rate) ==
    IF RLe(amount_in, Zero) THEN Ret(Zero)
    ELSE IF RLe(reserve_in, Zero) \/ RLe(reserve_out, Zero)
    THEN Raise("InvalidReserves")
    ELSE LET amount_in_with_fee == RMul(amount_in, RSub(One, fee_rate))
             numerator == RMul(amount_in_with_fee, reserve_out)
             denominator == RAdd(reserve_in, amount_in)
         IN  DecimalDivide(numerator, denominator)

\* The input is priced at the spot price: the reserve is not grown by the input.
output_at_spot_price(amount_in, reserve_in, reserve_out, fee_rate) ==
    IF RLe(amount_in, Zero) THEN Ret(Zero)
    ELSE IF RLe(reserve_in, Zero) \/ RLe(reserve_out, Zero)
    THEN Raise("InvalidReserves")
    ELSE LET amount_in_with_fee == RMul(amount_in, RSub(One, fee_rate))
             numerator == RMul(amount_in_with_fee, reserve_out)
         IN  DecimalDivide(numerator, reserve_in)

\* The reserves are checked before the amount.
output_reserves_checked_first(amount_in, reserve_in, reserve_out, fee_rate) ==
    IF RLe(reserve_in, Zero) \/ RLe(reserve_out, Zero)
    THEN Raise("InvalidReserves")
    ELSE IF RLe(amount_in, Zero) THEN Ret(Zero)
    ELSE LET amount_in_with_fee == RMul(amount_in, RSub(One, fee_rate))
             numerator == RMul(amount_in_with_fee, reserve_out)
             denominator == RAdd(reserve_in, amount_in_with_fee)
         IN  DecimalDivide(numerator, denominator)

\* The fee is left out of the required input.
input_without_fee(amount_out, reserve_in, reserve_out, fee_rate) ==
    IF RLe(amount_out, Zero) THEN Ret(Zero)
    ELSE IF RGe(amount_out, reserve_out) THEN Raise("ExceedsReserve")
    ELSE IF RLe(reserve_in, Zero) \/ RLe(reserve_out, Zero)
    THEN Raise("InvalidReserves")
    ELSE LET numerator == RMul(reserve_in, amount_out)
             denominator == RSub(reserve_out, amount_out)
         IN  DecimalDivide(numerator, denominator)

\* The whole reserve may be asked for: > in place of >=.
input_allows_whole_reserve(amount_out, reserve_in, reserve_out, fee_rate) ==
    IF RLe(amount_out, Zero) THEN Ret(Zero)
    ELSE IF RGt(amount_out, reserve_out) THEN Raise("ExceedsReserve")
    ELSE IF RLe(reserve_in, Zero) \/ RLe(reserve_out, Zero)
    THEN Raise("InvalidReserves")
    ELSE LET numerator == RMul(reserve_in, amount_out)
             denominator == RMul(RSub(reserve_out, amount_out), RSub(One, fee_rate))
         IN  DecimalDivide(numerator, denominator)

calculate_constant_product_output(amount_in, reserve_in, reserve_out, fee_rate) ==
    IF RLe(amount_in, Zero) THEN Ret(Zero)
    ELSE IF RLe(reserve_in, Zero) \/ RLe(reserve_out, Zero)
    THEN Raise("InvalidReserves")
    ELSE LET amount_in_with_fee == RMul(amount_in, RSub(One, fee_rate))
             numerator == RMul(amount_in_with_fee, reserve_out)
             denominator == RAdd(reserve_in, amount_in_with_fee)
         IN  DecimalDivide(numerator, denominator)

calculate_constant_product_input(amount_out, reserve_in, reserve_out, fee_rate) ==
    IF RLe(amount_out, Zero) THEN Ret(Zero)
    ELSE IF RGe(amount_out, reserve_out) THEN Raise("ExceedsReserve")
    ELSE IF RLe(reserve_in, Zero) \/ RLe(reserve_out, Zero)
    THEN Raise("InvalidReserves")
    ELSE LET numerator == RMul(reserve_in, amount_out)
             denominator == RMul(RSub(reserve_out, amount_out), RSub(One, fee_rate))
         IN  DecimalDivide(numerator, denominator)

\* PoolReserves: the two reserves and the two symbols.
PoolReserves(ra, rb, sa, sb) ==
    [reserve_token_a |-> ra, reserve_token_b |-> rb,
     token_a_symbol |-> sa, token_b_symbol |-> sb]

NoQuote ==
    [kind |-> "none", amount_in |-> Zero, amount_out |-> Zero,
     effective_price |-> Zero, price_impact |-> Zero, fee_amount |-> Zero]

QuoteRaise(e) == [NoQuote EXCEPT !.kind = e]

SwapQuote(amount_in, amount_out, effective_price, price_impact, fee_amount) ==
    [kind |-> "value", amount_in |-> amount_in, amount_out |-> amount_out,
     effective_price |-> effective_price, price_impact |-> price_impact,
     fee_amount |-> fee_amount]

\* The rest of get_swap_quote once the direction is resolved.
QuoteFor(amount_in, reserve_in, reserve_out, fee_rate) ==
    LET out == calculate_constant_product_output(amount_in, reserve_in,
                                                  reserve_out, fee_rate)
        eff == IF RGt(amount_in, Zero) THEN DecimalDivide(out.val, amount_in)
               ELSE Ret(Zero)
        spot == DecimalDivide(reserve_out, reserve_in)
        diff == RAbs(RSub(eff.val, spot.val))
        impact == IF RGt(spot.val, Zero)
                  THEN RMul(RDiv(diff, spot.val), Hundred)
                  ELSE Zero
    IN  IF out.kind # "value" THEN QuoteRaise(out.kind)
        ELSE IF eff.kind # "value" THEN QuoteRaise(eff.kind)
        ELSE IF spot.kind # "value" THEN QuoteRaise(spot.kind)
        ELSE SwapQuote(amount_in, out.val, eff.val, impact,
                       RMul(amount_in, fee_rate))

\* The direction is resolved the wrong way round: token A reads (b, a).
quote_direction_swapped(amount_in, reserves, token_in, fee_rate) ==
    IF token_in = reserves.token_a_symbol
    THEN QuoteFor(amount_in, reserves.reserve_token_b, reserves.reserve_token_a, fee_rate)
    ELSE IF token_in = reserves.token_b_symbol
    THEN QuoteFor(amount_in, reserves.reserve_token_a, reserves.reserve_token_b, fee_rate)
    ELSE QuoteRaise("UnknownToken")

get_swap_quote(amount_in, reserves, token_in, fee_rate) ==
    IF token_in = reserves.token_a_symbol
    THEN QuoteFor(amount_in, reserves.reserve_token_a, reserves.reserve_token_b, fee_rate)
    ELSE IF token_in = reserves.token_b_symbol
    THEN QuoteFor(amount_in, reserves.reserve_token_b, reserves.reserve_token_a, fee_rate)
    ELSE QuoteRaise("UnknownToken")

calculate_pool_spot_price(reserves, quote_token) ==
    IF quote_token = reserves.token_a_symbol
    THEN DecimalDivide(reserves.reserve_token_b, reserves.reserve_token_a)
    ELSE IF quote_token = reserves.token_b_symbol
    THEN DecimalDivide(reserves.reserve_token_a, reserves.reserve_token_b)
    ELSE Raise("UnknownToken")

---------------------------------------------------------------------------
(* The callers of the AMM functions: the inputs and the calls.             *)

MaxAmount == 3
MaxReserve == 3

\* Amounts and pools of the tests' scenarios (tests/test_amm_pricing.py).
ScenarioAmounts == {Dec(100)}
ScenarioPools == {<<Dec(1000), Dec(2000)>>, <<Dec(1000), Dec(1000)>>}

Amounts == {Dec(n) : n \in -1..MaxAmount}
Reserves == {Dec(n) : n \in -1..MaxReserve}
FeeRates == {Zero, Frac(3, 1000), Frac(1, 100), Frac(1, 2), One}
Tokens == {"COSA", "PIRATE", "BTC"}

\* The arguments a caller may pass: small ones of every sign, and the tests'.
AmmInputs ==
    LET AmmInput(amount, reserve_a, reserve_b, token, fee_rate) ==
            [amount |-> amount, reserve_a |-> reserve_a, reserve_b |-> reserve_b,
             token |-> token, fee_rate |-> fee_rate]
    IN
    {AmmInput(a, ra, rb, t, f) :
        a \in Amounts, ra \in Reserves, rb \in Reserves, t \in Tokens, f \in FeeRates}
    \cup {AmmInput(a, p[1], p[2], t, f) :
        a \in ScenarioAmounts, p \in ScenarioPools, t \in Tokens, f \in FeeRates}

AmmInit ==
    /\ amm_in \in AmmInputs
    /\ amm_calls = <<>>
    /\ amm_quote = NoQuote
    /\ amm_quote2 = NoQuote
    /\ amm_spot = Raise("none")

Pool == PoolReserves(amm_in.reserve_a, amm_in.reserve_b, "COSA", "PIRATE")

Call(fn, arg, res) == [fn |-> fn, arg |-> arg, res |-> res]

\* calculate_constant_product_output(amount, reserve_a, reserve_b, fee_rate)
CallOutput ==
    /\ amm_calls = <<>>
    /\ amm_calls' = <<Call("output", amm_in.amount,
            calculate_constant_product_output(amm_in.amount, amm_in.reserve_a,
                                              amm_in.reserve_b, amm_in.fee_rate))>>
    /\ UNCHANGED <<amm_in, amm_quote, amm_quote2, amm_spot>>
    /\ UNCHANGED other_than_amm

\* calculate_constant_product_input(amount, reserve_a, reserve_b, fee_rate)
CallInput ==
    /\ amm_calls = <<>>
    /\ amm_calls' = <<Call("input", amm_in.amount,
            calculate_constant_product_input(amm_in.amount, amm_in.reserve_a,
                                             amm_in.reserve_b, amm_in.fee_rate))>>
    /\ UNCHANGED <<amm_in, amm_quote, amm_quote2, amm_spot>>
    /\ UNCHANGED other_than_amm

\* The input needed is fed back to the output calculation, same pool and fee.
VerifyByOutput ==
    /\ Len(amm_calls) = 1
    /\ amm_calls[1].fn = "input"
    /\ amm_calls[1].res.kind = "value"
    /\ amm_calls' = Append(amm_calls, Call("output", amm_calls[1].res.val,
            calculate_constant_product_output(amm_calls[1].res.val, amm_in.reserve_a,
                                              amm_in.reserve_b, amm_in.fee_rate)))
    /\ UNCHANGED <<amm_in, amm_quote, amm_quote2, amm_spot>>
    /\ UNCHANGED other_than_amm

\* The output received is fed back to the input calculation, same pool and fee.
InvertByInput ==
    /\ Len(amm_calls) = 1
    /\ amm_calls[1].fn = "output"
    /\ amm_calls[1].res.kind = "value"
    /\ amm_calls' = Append(amm_calls, Call("input", amm_calls[1].res.val,
            calculate_constant_product_input(amm_calls[1].res.val, amm_in.reserve_a,
                                             amm_in.reserve_b, amm_in.fee_rate)))
    /\ UNCHANGED <<amm_in, amm_quote, amm_quote2, amm_spot>>
    /\ UNCHANGED other_than_amm

CallQuote ==
    /\ amm_quote.kind = "none"
    /\ amm_quote' = get_swap_quote(amm_in.amount, Pool, amm_in.token, amm_in.fee_rate)
    /\ UNCHANGED <<amm_in, amm_calls, amm_quote2, amm_spot>>
    /\ UNCHANGED other_than_amm

CallSpotPrice ==
    /\ amm_spot.kind = "none"
    /\ amm_spot' = calculate_pool_spot_price(Pool, amm_in.token)
    /\ UNCHANGED <<amm_in, amm_calls, amm_quote, amm_quote2>>
    /\ UNCHANGED other_than_amm

\* The amounts of a second quote: any small amount for a small pool, the
\* small trade of test_large_trade_slippage (10) for a pool of the tests.
OtherAmounts ==
    IF <<amm_in.reserve_a, amm_in.reserve_b>> \in ScenarioPools
    THEN {Dec(10)}
    ELSE Amounts

\* get_swap_quote again: another amount, the same pool, token and fee.
CallQuoteOther ==
    /\ amm_quote2.kind = "none"
    /\ \E amount \in OtherAmounts :
          amm_quote2' = get_swap_quote(amount, Pool, amm_in.token, amm_in.fee_rate)
    /\ UNCHANGED <<amm_in, amm_calls, amm_quote, amm_spot>>
    /\ UNCHANGED other_than_amm

AmmNext ==
    \/ CallOutput
    \/ CallInput
    \/ VerifyByOutput
    \/ InvertByInput
    \/ CallQuote
    \/ CallQuoteOther
    \/ CallSpotPrice

---------------------------------------------------------------------------
(* Swaps applied to a pool: a quote from get_swap_quote, then the reserves *)
(* updated by its amount_in and amount_out (tests/test_amm_pricing.py).    *)
(* This part computes in the Decimal context, digit by digit.              *)

MaxSwaps == 2

DOne == DInt(1)
DAbs(x) == [x EXCEPT !.sign = IF @ < 0 THEN 1 ELSE @]
DRet(v) == [kind |-> "value", val |-> v]
DRaise(e) == [kind |-> e, val |-> DZero]

\* Decimal's x / y: DivisionByZero for x # 0, y = 0; InvalidOperation for 0 / 0.
DDivide(x, y) ==
    Only({IF v.sign = 0
          THEN (IF u.sign = 0 THEN DRaise("InvalidOperation")
                ELSE DRaise("DivisionByZero"))
          ELSE DRet(DQuot(u, v)) :
            u \in {x}, v \in {y}})

\* The input is priced at the spot price: the reserve is not grown by the input.
swap_output_at_spot_price(amount_in, reserve_in, reserve_out, fee_rate) ==
    IF DLe(amount_in, DZero) THEN DRet(DZero)
    ELSE IF DLe(reserve_in, DZero) \/ DLe(reserve_out, DZero)
    THEN DRaise("InvalidReserves")
    ELSE LET amount_in_with_fee == DMul(amount_in, DSub(DOne, fee_rate))
             numerator == DMul(amount_in_with_fee, reserve_out)
         IN  DDivide(numerator, reserve_in)

\* calculate_constant_product_output, in the Decimal context.
swap_output(amount_in, reserve_in, reserve_out, fee_rate) ==
    IF DLe(amount_in, DZero) THEN DRet(DZero)
    ELSE IF DLe(reserve_in, DZero) \/ DLe(reserve_out, DZero)
    THEN DRaise("InvalidReserves")
    ELSE LET amount_in_with_fee == DMul(amount_in, DSub(DOne, fee_rate))
             numerator == DMul(amount_in_with_fee, reserve_out)
             denominator == DAdd(reserve_in, amount_in_with_fee)
         IN  DDivide(numerator, denominator)

DNoQuote ==
    [kind |-> "none", amount_in |-> DZero, amount_out |-> DZero,
     effective_price |-> DZero, price_impact |-> DZero, fee_amount |-> DZero]

\* The rest of get_swap_quote once the direction is resolved; out is the
\* outcome of calculate_constant_product_output.
SwapQuoteFor(amount_in, reserve_in, reserve_out, fee_rate) ==
    Only({LET eff == IF DGt(amount_in, DZero) THEN DDivide(out.val, amount_in)
                     ELSE DRet(DZero)
              spot == DDivide(reserve_out, reserve_in)
          IN  IF out.kind # "value" THEN [DNoQuote EXCEPT !.kind = out.kind]
              ELSE IF eff.kind # "value" THEN [DNoQuote EXCEPT !.kind = eff.kind]
              ELSE IF spot.kind # "value" THEN [DNoQuote EXCEPT !.kind = spot.kind]
              ELSE SwapQuote(amount_in, out.val, eff.val,
                             IF DGt(spot.val, DZero)
                             THEN DMul(DQuot(DAbs(DSub(eff.val, spot.val)), spot.val),
                                       DInt(100))
                             ELSE DZero,
                             DMul(amount_in, fee_rate)) :
            out \in {swap_output(amount_in, reserve_in, reserve_out, fee_rate)}})

\* get_swap_quote, in the Decimal context.
swap_quote(amount_in, reserves, token_in, fee_rate) ==
    IF token_in = reserves.token_a_symbol
    THEN SwapQuoteFor(amount_in, reserves.reserve_token_a,
                      reserves.reserve_token_b, fee_rate)
    ELSE IF token_in = reserves.token_b_symbol
    THEN SwapQuoteFor(amount_in, reserves.reserve_token_b,
                      reserves.reserve_token_a, fee_rate)
    ELSE [DNoQuote EXCEPT !.kind = "UnknownToken"]

\* The reserves are not updated: the next swap is quoted on the old pool.
apply_swap_keeps_reserves(reserves, token_in, amount_in, amount_out) == reserves

\* new_reserves: reserve_in + amount_in, reserve_out - amount_out.
ApplySwap(reserves, token_in, amount_in, amount_out) ==
    IF token_in = reserves.token_a_symbol
    THEN PoolReserves(DAdd(reserves.reserve_token_a, amount_in),
                      DSub(reserves.reserve_token_b, amount_out),
                      reserves.token_a_symbol, reserves.token_b_symbol)
    ELSE PoolReserves(DSub(reserves.reserve_token_a, amount_out),
                      DAdd(reserves.reserve_token_b, amount_in),
                      reserves.token_a_symbol, reserves.token_b_symbol)

PoolFeeRates == {DZero, DDec(3, 3), DDec(5, 1), DOne}
\* The amounts of a sequence of swaps.
SequenceAmounts == {DInt(2), DDec(15, 1)}

\* A round trip of an amount (test_roundtrip_consistency: 100 through pool
\* (1000, 1000) at fee 0.003), or a sequence of swaps of any amounts.
PoolInputs ==
    LET PoolInput(driver, reserve_a, reserve_b, fee_rate, amount) ==
            [driver |-> driver, reserve_a |-> reserve_a, reserve_b |-> reserve_b,
             fee_rate |-> fee_rate, amount |-> amount]
    IN
    {PoolInput("roundtrip", ra, rb, f, x) :
        ra \in {DInt(n) : n \in 1..MaxReserve},
        rb \in {DInt(n) : n \in 1..MaxReserve},
        f \in PoolFeeRates, x \in {DInt(n) : n \in 1..MaxAmount}}
    \cup {PoolInput("roundtrip", DInt(1000), DInt(1000), f, DInt(100)) :
        f \in PoolFeeRates}
    \cup {PoolInput("sequence", p[1], p[2], f, DZero) :
        p \in {<<DInt(1), DInt(1)>>, <<DInt(1000), DInt(2000)>>},
        f \in PoolFeeRates \ {DOne}}

PoolInit ==
    /\ pool_in \in PoolInputs
    /\ pool_now = PoolReserves(pool_in.reserve_a, pool_in.reserve_b, "COSA", "PIRATE")
    /\ pool_swaps = <<>>

\* One swap: the quote, and on success the reserves updated by it (applied)
\* or left as they are (a quote only).
DoSwap(token_in, amount_in, applied) ==
    \E quote \in {swap_quote(amount_in, pool_now, token_in, pool_in.fee_rate)} :
        /\ pool_now' = IF quote.kind = "value" /\ applied
                       THEN ApplySwap(pool_now, token_in, quote.amount_in,
                                      quote.amount_out)
                       ELSE pool_now
        /\ pool_swaps' = Append(pool_swaps,
               [token_in |-> token_in, quote |-> quote, applied |-> applied,
                before |-> pool_now, after |-> pool_now'])
        /\ UNCHANGED pool_in
        /\ UNCHANGED other_than_pool

\* quote1 and new_reserves: the amount of token A is swapped for token B.
SwapForward ==
    /\ pool_in.driver = "roundtrip"
    /\ pool_swaps = <<>>
    /\ DoSwap("COSA", pool_in.amount, TRUE)

\* quote2: the token B received is quoted back in the updated pool.
SwapBack ==
    /\ pool_in.driver = "roundtrip"
    /\ Len(pool_swaps) = 1
    /\ pool_swaps[1].quote.kind = "value"
    /\ DoSwap("PIRATE", pool_swaps[1].quote.amount_out, FALSE)

\* A swap of any positive amount in either direction.
SwapAny ==
    /\ pool_in.driver = "sequence"
    /\ Len(pool_swaps) < MaxSwaps
    /\ \E token_in \in {"COSA", "PIRATE"}, amount_in \in SequenceAmounts :
          DoSwap(token_in, amount_in, TRUE)

PoolNext ==
    \/ SwapForward
    \/ SwapBack
    \/ SwapAny

---------------------------------------------------------------------------
(* src/run_cosa_arb.py: the triangular arbitrage polling loop.             *)

MaxCycles == 2
MaxPrice == 1

\* The prices of the runner's test (tests/test_cosa_runner.py): 100, 0.1, 1200.
ScenarioPrices == {Dec(100), Frac(1, 10), Dec(1200)}
Prices == {Dec(n) : n \in 0..MaxPrice} \cup ScenarioPrices
TradeAmounts == {Dec(1), Dec(100)}
BotFeeRates == {Zero, Frac(1, 10)}
Thresholds == {Zero, Frac(1, 20)}
\* The three pair names of the configuration: distinct, or one name twice.
PairSettings ==
    {<<"PIRATE/BTC", "COSA/BTC", "COSA/PIRATE">>,
     <<"PIRATE/BTC", "COSA/BTC", "PIRATE/BTC">>}
\* What the operator may type at the prompt.
Responses == {"yes", "y", "Y", "no", ""}

\* min_notional_usd: 0.01 as in the runner's test, or 1.0.
Configs ==
    {[trade_amount_a |-> t, fee_rate |-> f, min_profitability |-> m,
      min_notional_usd |-> mn,
      pair_ab |-> ps[1], pair_bc |-> ps[2], pair_ac |-> ps[3]] :
        t \in TradeAmounts, f \in BotFeeRates, m \in Thresholds,
        mn \in {Frac(1, 100), One}, ps \in PairSettings}

\* str.lower on the responses.
Lower(r) == IF r = "Y" THEN "y" ELSE r

\* prices[pair] = price, and prices[pair].
DictSet(dict, key, value) == {e \in dict : e[1] # key} \cup {<<key, value>>}
DictGet(dict, key) == (CHOOSE e \in dict : e[1] = key)[2]
DictHas(dict, key) == \E e \in dict : e[1] = key

\* The pairs in the order the for loop fetches them.
PairAt(cfg, i) == IF i = 1 THEN cfg.pair_ab ELSE IF i = 2 THEN cfg.pair_bc ELSE cfg.pair_ac

NoEval ==
    [stage |-> "none", step1 |-> Zero, step2 |-> Zero, step3 |-> Zero,
     amount |-> Zero, profit |-> Zero, profit_ratio |-> Zero,
     decision |-> "none", response |-> "none", executed |-> "none"]

\* step2 inverts the price of pair_bc at the wrong place: pair_ac is inverted.
rates_invert_pair_ac(cfg, pr) ==
    LET inv == DecimalDivide(One, DictGet(pr, cfg.pair_ac))
    IN  [kind |-> inv.kind,
         step1 |-> DictGet(pr, cfg.pair_ab),
         step2 |-> DictGet(pr, cfg.pair_bc),
         step3 |-> inv.val]

calculate_conversion_rates(cfg, pr) ==
    LET pirate_btc_rate == DictGet(pr, cfg.pair_ab)
        cosa_btc_price == DictGet(pr, cfg.pair_bc)
        btc_cosa_rate == DecimalDivide(One, cosa_btc_price)
        cosa_pirate_rate == DictGet(pr, cfg.pair_ac)
    IN  [kind |-> btc_cosa_rate.kind,
         step1 |-> pirate_btc_rate,
         step2 |-> btc_cosa_rate.val,
         step3 |-> cosa_pirate_rate]

\* Lines 196-204: the amount after the three hops, a fee after each.
SimulateCycle(cfg, step1, step2, step3) ==
    LET keep == RSub(One, cfg.fee_rate)
        a1 == RMul(RMul(cfg.trade_amount_a, step1), keep)
        a2 == RMul(RMul(a1, step2), keep)
    IN  RMul(RMul(a2, step3), keep)

\* The comparison is strict.
profitable_strictly(profit_ratio, min_profit) == RGt(profit_ratio, min_profit)

\* Line 219: profit_ratio >= min_profit.
IsProfitable(profit_ratio, min_profit) == RGe(profit_ratio, min_profit)

\* The quantities of the three orders of execute_arbitrage.
Leg1Quantity(cfg, pr) == cfg.trade_amount_a
BtcAmount(cfg, pr) ==
    RMul(RMul(cfg.trade_amount_a, DictGet(pr, cfg.pair_ab)), RSub(One, cfg.fee_rate))
Leg2Quantity(cfg, pr) == RDiv(BtcAmount(cfg, pr), DictGet(pr, cfg.pair_bc))
Leg3Quantity(cfg, pr) == RMul(Leg2Quantity(cfg, pr), RSub(One, cfg.fee_rate))

OrderRequest(symbol, side, quantity) ==
    [symbol |-> symbol, side |-> side, quantity |-> quantity]

LegOrder(cfg, pr, k) ==
    IF k = 1 THEN OrderRequest(cfg.pair_ab, "sell", Leg1Quantity(cfg, pr))
    ELSE IF k = 2 THEN OrderRequest(cfg.pair_bc, "buy", Leg2Quantity(cfg, pr))
    ELSE OrderRequest(cfg.pair_ac, "sell", Leg3Quantity(cfg, pr))

BotInit ==
    /\ config \in Configs
    /\ pc = "loop_top"
    /\ cycle_count = 0
    /\ fetch_idx = 0
    /\ prices = {}
    /\ eval = NoEval
    /\ orders = <<>>
    /\ trace = <<>>
    /\ last_outcome = "none"

Log(e) == trace' = Append(trace, e)

\* Lines 167-175: the top of the while loop.
StartCycle ==
    /\ pc = "loop_top"
    /\ cycle_count < MaxCycles
    /\ cycle_count' = cycle_count + 1
    /\ prices' = {}
    /\ fetch_idx' = 1
    /\ pc' = "fetch"
    /\ eval' = NoEval
    /\ orders' = <<>>
    /\ trace' = <<>>
    /\ UNCHANGED <<config, last_outcome>>
    /\ UNCHANGED other_than_bot

\* The for loop moves to the next pair, or ends.
AfterPair(i) ==
    IF i < 3 THEN fetch_idx' = i + 1 /\ pc' = "fetch"
    ELSE fetch_idx' = 0 /\ pc' = "check_len"

\* Lines 178, 183: get_price returns a price.
FetchOk ==
    /\ pc = "fetch"
    /\ \E price \in Prices :
          prices' = DictSet(prices, PairAt(config, fetch_idx), price)
    /\ AfterPair(fetch_idx)
    /\ Log("fetch_ok")
    /\ UNCHANGED <<config, cycle_count, eval, orders, last_outcome>>
    /\ UNCHANGED other_than_bot

\* Lines 178-180: get_price returns None.
FetchFail ==
    /\ pc = "fetch"
    /\ pc' = "sleep_fail"
    /\ Log("fetch_fail")
    /\ UNCHANGED <<config, cycle_count, fetch_idx, prices, eval, orders, last_outcome>>
    /\ UNCHANGED other_than_bot

\* The continue is missing: the failed price is stored like any other.
sleep_without_continue ==
    /\ pc = "sleep_fail"
    /\ prices' = DictSet(prices, PairAt(config, fetch_idx), One)
    /\ AfterPair(fetch_idx)
    /\ Log("sleep")
    /\ UNCHANGED <<config, cycle_count, eval, orders, last_outcome>>
    /\ UNCHANGED other_than_bot

\* Lines 181-182: sleep, then continue the for loop.
SleepAfterFail ==
    /\ pc = "sleep_fail"
    /\ AfterPair(fetch_idx)
    /\ Log("sleep")
    /\ UNCHANGED <<config, cycle_count, prices, eval, orders, last_outcome>>
    /\ UNCHANGED other_than_bot

\* Lines 185-186: fewer than three prices: continue the while loop.
CheckLen ==
    /\ pc = "check_len"
    /\ IF Cardinality(prices) # 3
       THEN pc' = "loop_top" /\ last_outcome' = "abandoned"
       ELSE pc' = "rates" /\ UNCHANGED last_outcome
    /\ UNCHANGED <<config, cycle_count, fetch_idx, prices, eval, orders, trace>>
    /\ UNCHANGED other_than_bot

\* Line 189: an exception here ends the loop (line 238).
CalcRates ==
    /\ pc = "rates"
    /\ LET r == calculate_conversion_rates(config, prices)
       IN  IF r.kind = "value"
           THEN /\ eval' = [eval EXCEPT !.stage = "rates", !.step1 = r.step1,
                                        !.step2 = r.step2, !.step3 = r.step3]
                /\ pc' = "simulate"
                /\ Log("rates")
           ELSE /\ pc' = "fatal"
                /\ UNCHANGED <<eval, trace>>
    /\ UNCHANGED <<config, cycle_count, fetch_idx, prices, orders, last_outcome>>
    /\ UNCHANGED other_than_bot

\* Lines 192-208.
Simulate ==
    /\ pc = "simulate"
    /\ LET amount == SimulateCycle(config, eval.step1, eval.step2, eval.step3)
           profit == RSub(amount, config.trade_amount_a)
           ratio == DecimalDivide(profit, config.trade_amount_a)
       IN  IF ratio.kind = "value"
           THEN /\ eval' = [eval EXCEPT !.stage = "simulated", !.amount = amount,
                                        !.profit = profit, !.profit_ratio = ratio.val]
                /\ pc' = "decide"
                /\ Log("simulate")
           ELSE /\ pc' = "fatal"
                /\ UNCHANGED <<eval, trace>>
    /\ UNCHANGED <<config, cycle_count, fetch_idx, prices, orders, last_outcome>>
    /\ UNCHANGED other_than_bot

\* Lines 217-229.
Decide ==
    /\ pc = "decide"
    /\ IF IsProfitable(eval.profit_ratio, config.min_profitability)
       THEN /\ eval' = [eval EXCEPT !.stage = "decided", !.decision = "execute"]
            /\ pc' = "prompt"
       ELSE /\ eval' = [eval EXCEPT !.stage = "decided", !.decision = "skip"]
            /\ pc' = "sleep_end"
    /\ Log("decide")
    /\ UNCHANGED <<config, cycle_count, fetch_idx, prices, orders, last_outcome>>
    /\ UNCHANGED other_than_bot

\* Lines 223-227: the operator answers the prompt.
Prompt ==
    /\ pc = "prompt"
    /\ \E response \in Responses :
          /\ eval' = [eval EXCEPT !.response = response]
          /\ pc' = IF Lower(response) \in {"yes", "y"} THEN "leg1" ELSE "sleep_end"
    /\ Log("prompt")
    /\ UNCHANGED <<config, cycle_count, fetch_idx, prices, orders, last_outcome>>
    /\ UNCHANGED other_than_bot

LegOf(p) == IF p = "leg1" THEN 1 ELSE IF p = "leg2" THEN 2 ELSE 3

\* Lines 76-91, 95-108, 112-133: place_order returns.
PlaceOrderOk ==
    /\ pc \in {"leg1", "leg2", "leg3"}
    /\ orders' = Append(orders, LegOrder(config, prices, LegOf(pc)))
    /\ IF pc = "leg1" THEN pc' = "leg2" /\ UNCHANGED eval /\ Log("submit_ok")
       ELSE IF pc = "leg2" THEN pc' = "leg3" /\ UNCHANGED eval /\ Log("submit_ok")
       ELSE /\ pc' = "sleep_end"
            /\ eval' = [eval EXCEPT !.executed = "True"]
            /\ Log("submit_ok")
    /\ UNCHANGED <<config, cycle_count, fetch_idx, prices, last_outcome>>
    /\ UNCHANGED other_than_bot

\* Each leg has a try of its own: a failed leg is followed by the next one.
place_order_fail_continues ==
    /\ pc \in {"leg1", "leg2", "leg3"}
    /\ orders' = Append(orders, LegOrder(config, prices, LegOf(pc)))
    /\ pc' = IF pc = "leg1" THEN "leg2" ELSE IF pc = "leg2" THEN "leg3" ELSE "sleep_end"
    /\ eval' = [eval EXCEPT !.executed = "False"]
    /\ Log("submit_fail")
    /\ UNCHANGED <<config, cycle_count, fetch_idx, prices, last_outcome>>
    /\ UNCHANGED other_than_bot

\* The failed submission is retried: the same leg is submitted again.
place_order_fail_retries ==
    /\ pc \in {"leg1", "leg2", "leg3"}
    /\ orders' = Append(orders, LegOrder(config, prices, LegOf(pc)))
    /\ pc' = pc
    /\ eval' = [eval EXCEPT !.executed = "False"]
    /\ Log("submit_fail")
    /\ UNCHANGED <<config, cycle_count, fetch_idx, prices, last_outcome>>
    /\ UNCHANGED other_than_bot

\* Lines 135-137: place_order raises; execute_arbitrage returns False.
PlaceOrderFail ==
    /\ pc \in {"leg1", "leg2", "leg3"}
    /\ orders' = Append(orders, LegOrder(config, prices, LegOf(pc)))
    /\ pc' = "sleep_end"
    /\ eval' = [eval EXCEPT !.executed = "False"]
    /\ Log("submit_fail")
    /\ UNCHANGED <<config, cycle_count, fetch_idx, prices, last_outcome>>
    /\ UNCHANGED other_than_bot

\* How a cycle that reached line 233 ended.
Outcome(e) ==
    IF e.decision = "skip" THEN "skipped"
    ELSE IF e.executed = "True" THEN "executed"
    ELSE IF e.executed = "False" THEN "execution_failed"
    ELSE "declined"

\* Lines 232-233: the sleep at the end of the cycle.
SleepEnd ==
    /\ pc = "sleep_end"
    /\ pc' = "loop_top"
    /\ last_outcome' = Outcome(eval)
    /\ Log("sleep")
    /\ UNCHANGED <<config, cycle_count, fetch_idx, prices, eval, orders>>
    /\ UNCHANGED other_than_bot

\* Lines 235-237: KeyboardInterrupt, at any statement of the loop.
Interrupt ==
    /\ pc \notin {"stopped", "fatal"}
    /\ pc' = "stopped"
    /\ UNCHANGED <<config, cycle_count, fetch_idx, prices, eval, orders, trace,
                   last_outcome>>
    /\ UNCHANGED other_than_bot

Next ==
    \/ StartCycle
    \/ FetchOk
    \/ FetchFail
    \/ SleepAfterFail
    \/ CheckLen
    \/ CalcRates
    \/ Simulate
    \/ Decide
    \/ Prompt
    \/ PlaceOrderOk
    \/ PlaceOrderFail
    \/ SleepEnd
    \/ Interrupt

---------------------------------------------------------------------------
(* src/src/nonkyc_client/pricing.py and src/src/utils/notional.py: the     *)
(* order-size helpers.  They compute in the Decimal context.               *)

MaxQuantity == 3

\* A str argument, and Decimal(str(x)): a str is parsed, a Decimal comes
\* back as the value it is (the constructor does not round).
Str(s) == [str |-> s]
DecimalOfStr(s) ==
    CASE s = "1.0" -> DDec(10, 1)
      [] s = "0.01" -> DDec(1, 2)
      [] s = "0.5" -> DDec(5, 1)
      [] s = "2" -> DInt(2)
ToDecimal(x) == IF "str" \in DOMAIN x THEN DecimalOfStr(x.str) ELSE x

\* d.to_integral_value(rounding=ROUND_UP): away from zero.
to_integral_round_up(d) ==
    IF d.exp >= 0 THEN d
    ELSE LET n == Len(d.coef) + d.exp
         IN  DNorm(d.sign, CoefAdd(IF n > 0 THEN SubSeq(d.coef, 1, n) ELSE <<>>, <<1>>), 0)

min_quantity_for_notional(price, min_notional, fee_rate) ==
    IF DLe(ToDecimal(price), DZero) THEN DZero
    ELSE LET denominator == DMul(ToDecimal(price), DSub(DOne, ToDecimal(fee_rate)))
         IN  IF DLe(denominator, DZero) THEN DZero
             ELSE DQuot(ToDecimal(min_notional), denominator)

effective_notional(quantity, price, fee_rate) ==
    DMul(DMul(ToDecimal(quantity), ToDecimal(price)), DSub(DOne, ToDecimal(fee_rate)))

round_up_to_step(quantity, step) ==
    IF DLe(ToDecimal(step), DZero) THEN ToDecimal(quantity)
    ELSE LET multiplier == to_integral_round_up(DQuot(ToDecimal(quantity), ToDecimal(step)))
         IN  DMul(multiplier, ToDecimal(step))

\* An order at the minimum is skipped too.
should_skip_at_minimum(cfg, symbol, side, quantity, price, order_type) ==
    LET min_notional == ToDecimal(IF DictHas(cfg, "min_notional_usd")
                                  THEN DictGet(cfg, "min_notional_usd")
                                  ELSE Str("1.0"))
        notional == DMul(ToDecimal(quantity), ToDecimal(price))
    IN  IF DLe(notional, min_notional)
        THEN [returned |-> TRUE,
              printed |-> <<[symbol |-> symbol, side |-> side, order_type |-> order_type,
                             price |-> price, quantity |-> quantity,
                             notional |-> notional]>>]
        ELSE [returned |-> FALSE, printed |-> <<>>]

\* The value returned and the lines printed.
should_skip_notional(cfg, symbol, side, quantity, price, order_type) ==
    LET min_notional == ToDecimal(IF DictHas(cfg, "min_notional_usd")
                                  THEN DictGet(cfg, "min_notional_usd")
                                  ELSE Str("1.0"))
        notional == DMul(ToDecimal(quantity), ToDecimal(price))
    IN  IF DLt(notional, min_notional)
        THEN [returned |-> TRUE,
              printed |-> <<[symbol |-> symbol, side |-> side, order_type |-> order_type,
                             price |-> price, quantity |-> quantity,
                             notional |-> notional]>>]
        ELSE [returned |-> FALSE, printed |-> <<>>]

\* The arguments: quantities of either sign, whole and in tenths; steps
\* and prices that are negative, zero, fractional and whole; fee rates up to
\* and over 1; a config with or without the minimum.
PricingQuantities == {DDec(n, k) : n \in (-MaxQuantity)..MaxQuantity, k \in {0, 1}}
PricingPrices == {DInt(-1), DZero, DDec(5, 1), DInt(1), DInt(2), DInt(3), Str("0.5")}

\* The function called and its arguments; an argument the function does
\* not take is 0.
PricingInputs ==
    {[fn |-> "round_up_to_step", quantity |-> q, step |-> st, price |-> DZero,
      min_notional |-> DZero, fee_rate |-> DZero, config |-> {}] :
        q \in PricingQuantities,
        st \in {DInt(-1), DZero, DDec(1, 1), DInt(1), DInt(2)}}
    \cup {[fn |-> "min_quantity_for_notional", quantity |-> DZero, step |-> DZero,
            price |-> p, min_notional |-> m, fee_rate |-> f, config |-> {}] :
        p \in PricingPrices, m \in {DInt(1), DInt(2), Str("0.01")},
        f \in {DZero, DDec(3, 3), DInt(1), DDec(15, 1)}}
    \cup {[fn |-> "should_skip_notional", quantity |-> q, step |-> DZero, price |-> p,
            min_notional |-> DZero, fee_rate |-> DZero, config |-> c] :
        q \in PricingQuantities, p \in PricingPrices,
        c \in {{}} \cup {{<<"min_notional_usd", Str(t)>>} : t \in {"1.0", "0.01", "2"}}}

PricingInit ==
    /\ px_in \in PricingInputs
    /\ px_calls = <<>>
    /\ px_stdout = <<>>

CallRoundUp ==
    /\ px_in.fn = "round_up_to_step"
    /\ px_calls = <<>>
    /\ px_calls' = <<[fn |-> "round_up_to_step", quantity |-> px_in.quantity,
                  result |-> round_up_to_step(px_in.quantity, px_in.step)]>>
    /\ UNCHANGED <<px_in, px_stdout>>
    /\ UNCHANGED other_than_pricing

CallMinQuantity ==
    /\ px_in.fn = "min_quantity_for_notional"
    /\ px_calls = <<>>
    /\ px_calls' = <<[fn |-> "min_quantity_for_notional", quantity |-> DZero,
                  result |-> min_quantity_for_notional(
                      px_in.price, px_in.min_notional, px_in.fee_rate)]>>
    /\ UNCHANGED <<px_in, px_stdout>>
    /\ UNCHANGED other_than_pricing

\* effective_notional of the quantity returned, or of any other quantity.
CallEffective ==
    /\ px_in.fn = "min_quantity_for_notional"
    /\ Len(px_calls) = 1
    /\ \E quantity \in {px_calls[1].result} \cup PricingQuantities :
          px_calls' = Append(px_calls,
              [fn |-> "effective_notional", quantity |-> quantity,
                  result |-> effective_notional(quantity, px_in.price, px_in.fee_rate)])
    /\ UNCHANGED <<px_in, px_stdout>>
    /\ UNCHANGED other_than_pricing

CallShouldSkip ==
    /\ px_in.fn = "should_skip_notional"
    /\ px_calls = <<>>
    /\ \E out \in {should_skip_notional(px_in.config, "COSA/USDT", "buy", px_in.quantity,
                                        px_in.price, "limit")} :
          /\ px_calls' = <<[fn |-> "should_skip_notional", quantity |-> px_in.quantity,
                  result |-> out.returned]>>
          /\ px_stdout' = px_stdout \o out.printed
    /\ UNCHANGED px_in
    /\ UNCHANGED other_than_pricing

PricingNext ==
    \/ CallRoundUp
    \/ CallMinQuantity
    \/ CallEffective
    \/ CallShouldSkip

---------------------------------------------------------------------------
(* src/src/utils/amm_pricing.py: estimate_optimal_trade_size, and a swap   *)
(* of the size it estimates.                                               *)

\* f"{a}_to_{b}"
DirectionLabel(a, b) == a \o "_to_" \o b

\* The dict literal: the second entry replaces the first under an equal key.
estimate_optimal_trade_size(reserves, max_price_impact, fee_rate) ==
    LET optimal_a_to_b == RMul(reserves.reserve_token_a, max_price_impact)
        optimal_b_to_a == RMul(reserves.reserve_token_b, max_price_impact)
    IN  DictSet(DictSet({}, DirectionLabel(reserves.token_a_symbol,
                                           reserves.token_b_symbol), optimal_a_to_b),
                DirectionLabel(reserves.token_b_symbol, reserves.token_a_symbol),
                optimal_b_to_a)

\* The pool of test_estimate_optimal_trade_size (10000, 5000), the pool
\* (1000, 1000) and small pools; symbols that differ, that are equal, and
\* that give one label for both directions; max_price_impact 0.01 (the
\* default), 0.1, 0.5 and the test's 1.0.
SizeInputs ==
    {[reserve_a |-> p[1], reserve_b |-> p[2], symbol_a |-> sy[1], symbol_b |-> sy[2],
      max_price_impact |-> m, fee_rate |-> f] :
        p \in {<<Dec(10000), Dec(5000)>>, <<Dec(1000), Dec(1000)>>}
              \cup (Reserves \X Reserves),
        sy \in {<<"COSA", "PIRATE">>, <<"COSA", "COSA">>, <<"X", "X_to_X">>},
        m \in {Frac(1, 100), Frac(1, 10), Frac(1, 2), One},
        f \in {Zero, Frac(3, 1000), Frac(1, 2)}}

SizeInit ==
    /\ size_in \in SizeInputs
    /\ size_out = [kind |-> "none", dict |-> {}]
    /\ size_quote = [token_in |-> "", quote |-> NoQuote]

\* optimal = estimate_optimal_trade_size(reserves, max_price_impact, fee_rate)
CallEstimate ==
    /\ size_out.kind = "none"
    /\ size_out' = [kind |-> "value",
                    dict |-> estimate_optimal_trade_size(
                        PoolReserves(size_in.reserve_a, size_in.reserve_b,
                                     size_in.symbol_a, size_in.symbol_b),
                        size_in.max_price_impact, size_in.fee_rate)]
    /\ UNCHANGED <<size_in, size_quote>>
    /\ UNCHANGED other_than_size

\* get_swap_quote(optimal[f"{token_in}_to_{other}"], reserves, token_in, fee_rate)
QuoteEstimated ==
    /\ size_out.kind = "value"
    /\ size_quote.quote.kind = "none"
    /\ \E d \in {<<size_in.symbol_a, size_in.symbol_b>>,
                 <<size_in.symbol_b, size_in.symbol_a>>} :
          size_quote' =
              [token_in |-> d[1],
               quote |-> get_swap_quote(
                   DictGet(size_out.dict, DirectionLabel(d[1], d[2])),
                   PoolReserves(size_in.reserve_a, size_in.reserve_b,
                                size_in.symbol_a, size_in.symbol_b),
                   d[1], size_in.fee_rate)]
    /\ UNCHANGED <<size_in, size_out>>
    /\ UNCHANGED other_than_size

SizeNext ==
    \/ CallEstimate
    \/ QuoteEstimated

---------------------------------------------------------------------------
(* The list of open orders (src/nonkyc_bot/src/engine/order_manager.py).   *)

MaxOpenOrders == 3

\* The orders a caller may pass: three ids, two amounts for each, so that an
\* order and its replacement can differ.
Orders ==
    {[order_id |-> i, trading_pair |-> "COSA/BTC", side |-> "buy",
      price |-> 1, amount |-> a] : i \in {"1", "2", "3"}, a \in {1, 2}}

\* The first order of the list with this id, as <<order>>; <<>> is None.
get_open_order(open, order_id) ==
    LET found == {i \in 1..Len(open) : open[i].order_id = order_id}
    IN  IF found = {} THEN <<>>
        ELSE <<open[CHOOSE i \in found : \A j \in found : i <= j]>>

submit(open, order) ==
    IF get_open_order(open, order.order_id) # <<>>
    THEN [kind |-> "ValueError", open |-> open]
    ELSE [kind |-> "value", open |-> Append(open, order)]

\* submit(order)
Submit ==
    \E order \in Orders : \E r \in {submit(open_orders, order)} :
        /\ Len(r.open) <= MaxOpenOrders
        /\ open_orders' = r.open
        /\ om_last' = [op |-> "submit", arg |-> order,
                     kind |-> r.kind,
                     before |-> open_orders]
        /\ UNCHANGED other_than_om

\* track(order): submit(order), the order it returns dropped
Track ==
    \E order \in Orders : \E r \in {submit(open_orders, order)} :
        /\ Len(r.open) <= MaxOpenOrders
        /\ open_orders' = r.open
        /\ om_last' = [op |-> "track", arg |-> order,
                     kind |-> r.kind,
                     before |-> open_orders]
        /\ UNCHANGED other_than_om

\* replace(order_id, new_order): the first order with this id becomes
\* new_order and True is returned; False when no order has this id.
Replace ==
    \E order_id \in {o.order_id : o \in Orders}, new_order \in Orders :
        LET found == {i \in 1..Len(open_orders) : open_orders[i].order_id = order_id}
            index == CHOOSE i \in found : \A j \in found : i <= j
        IN  /\ open_orders' = IF found = {} THEN open_orders
                              ELSE [open_orders EXCEPT ![index] = new_order]
            /\ om_last' = [op |-> "replace", arg |-> <<order_id, new_order>>,
                     kind |-> IF found = {} THEN "False" ELSE "True",
                     before |-> open_orders]
            /\ UNCHANGED other_than_om

\* cancel(order_id): the first order with this id is deleted and True is
\* returned; False when no order has this id.
Cancel ==
    \E order_id \in {o.order_id : o \in Orders} :
        LET found == {i \in 1..Len(open_orders) : open_orders[i].order_id = order_id}
            index == CHOOSE i \in found : \A j \in found : i <= j
        IN  /\ open_orders' = IF found = {} THEN open_orders
                              ELSE [i \in 1..(Len(open_orders) - 1) |->
                                       IF i < index THEN open_orders[i]
                                       ELSE open_orders[i + 1]]
            /\ om_last' = [op |-> "cancel", arg |-> order_id,
                     kind |-> IF found = {} THEN "False" ELSE "True",
                     before |-> open_orders]
            /\ UNCHANGED other_than_om

OmNext ==
    \/ Submit
    \/ Track
    \/ Replace
    \/ Cancel

---------------------------------------------------------------------------
(* The risk checks (src/src/engine/risk.py).                               *)

MaxSize == 2

\* Sizes, exposures and limits are whole numbers of either sign, which
\* Python compares and adds exactly.
Sizes == -MaxSize..MaxSize

\* The exposure is added with its sign.
allows_order_signed(lim, triggered, amount, current_exposure) ==
    IF triggered THEN FALSE
    ELSE IF amount < lim.min_order_size \/ amount > lim.max_order_size THEN FALSE
    ELSE current_exposure + Abs(amount) <= lim.max_exposure

allows_order(lim, triggered, amount, current_exposure) ==
    IF triggered THEN FALSE
    ELSE IF amount < lim.min_order_size \/ amount > lim.max_order_size THEN FALSE
    ELSE LET projected_exposure == Abs(current_exposure) + Abs(amount)
         IN  projected_exposure <= lim.max_exposure

\* trigger_kill_switch()
TriggerKillSwitch ==
    /\ kill_switch_triggered' = TRUE
    /\ risk_last' = [op |-> "trigger_kill_switch", amount |-> 0, current_exposure |-> 0,
                    result |-> FALSE, limits |-> limits,
                    triggered |-> kill_switch_triggered']
    /\ UNCHANGED limits
    /\ UNCHANGED other_than_risk

\* reset_kill_switch()
ResetKillSwitch ==
    /\ kill_switch_triggered' = FALSE
    /\ risk_last' = [op |-> "reset_kill_switch", amount |-> 0, current_exposure |-> 0,
                    result |-> FALSE, limits |-> limits,
                    triggered |-> kill_switch_triggered']
    /\ UNCHANGED limits
    /\ UNCHANGED other_than_risk

\* allows_order(amount, current_exposure)
AllowsOrder ==
    /\ \E amount \in Sizes, current_exposure \in Sizes :
          risk_last' = [op |-> "allows_order", amount |-> amount,
                        current_exposure |-> current_exposure,
                        result |-> allows_order(limits, kill_switch_triggered,
                                                amount, current_exposure),
                        limits |-> limits,
                        triggered |-> kill_switch_triggered]
    /\ UNCHANGED <<limits, kill_switch_triggered>>
    /\ UNCHANGED other_than_risk

RiskNext ==
    \/ TriggerKillSwitch
    \/ ResetKillSwitch
    \/ AllowsOrder

---------------------------------------------------------------------------
(* The specifications: each part runs with the other parts idle.           *)

\* Every part but the one that runs is idle: the loop is not running, no
\* function of the part is called.
IdleExcept(part) ==
    /\ part # "bot" =>
          /\ config = CHOOSE c \in Configs : TRUE
          /\ pc = "idle"
          /\ cycle_count = 0
          /\ fetch_idx = 0
          /\ prices = {}
          /\ eval = NoEval
          /\ orders = <<>>
          /\ trace = <<>>
          /\ last_outcome = "none"
    /\ part # "amm" =>
          /\ amm_in = CHOOSE i \in AmmInputs : TRUE
          /\ amm_calls = <<>>
          /\ amm_quote = NoQuote
          /\ amm_quote2 = NoQuote
          /\ amm_spot = Raise("none")
    /\ part # "pool" =>
          /\ pool_in = CHOOSE i \in PoolInputs : TRUE
          /\ pool_now = PoolReserves(DZero, DZero, "COSA", "PIRATE")
          /\ pool_swaps = <<>>
    /\ part # "pricing" =>
          /\ px_in = CHOOSE i \in PricingInputs : TRUE
          /\ px_calls = <<>>
          /\ px_stdout = <<>>
    /\ part # "size" =>
          /\ size_in = CHOOSE i \in SizeInputs : TRUE
          /\ size_out = [kind |-> "none", dict |-> {}]
          /\ size_quote = [token_in |-> "", quote |-> NoQuote]
    /\ part # "om" =>
          /\ open_orders = <<>>
          /\ om_last = [op |-> "none", arg |-> <<>>, kind |-> "none", before |-> <<>>]
    /\ part # "risk" =>
          /\ limits = [min_order_size |-> 0, max_order_size |-> 0, max_exposure |-> 0]
          /\ kill_switch_triggered = FALSE
          /\ risk_last = [op |-> "none", amount |-> 0, current_exposure |-> 0,
                          result |-> FALSE, limits |-> limits, triggered |-> FALSE]

InitAmm == AmmInit /\ IdleExcept("amm")
SpecAmm == InitAmm /\ [][AmmNext]_vars

Init == BotInit /\ IdleExcept("bot")
Spec == Init /\ [][Next]_vars

InitPool == PoolInit /\ IdleExcept("pool")
SpecPool == InitPool /\ [][PoolNext]_vars

InitPricing == PricingInit /\ IdleExcept("pricing")
SpecPricing == InitPricing /\ [][PricingNext]_vars

InitSize == SizeInit /\ IdleExcept("size")
SpecSize == InitSize /\ [][SizeNext]_vars

\* OrderManager(): no open order.
InitOm ==
    /\ open_orders = <<>>
    /\ om_last = [op |-> "none", arg |-> <<>>, kind |-> "none", before |-> <<>>]
    /\ IdleExcept("om")
SpecOm == InitOm /\ [][OmNext]_vars

\* RiskManager(limits): the limits passed, the kill switch not triggered.
InitRisk ==
    /\ limits \in [min_order_size : Sizes, max_order_size : Sizes, max_exposure : Sizes]
    /\ kill_switch_triggered = FALSE
    /\ risk_last = [op |-> "none", amount |-> 0, current_exposure |-> 0,
                    result |-> FALSE, limits |-> limits, triggered |-> FALSE]
    /\ IdleExcept("risk")
SpecRisk == InitRisk /\ [][RiskNext]_vars

---------------------------------------------------------------------------
(* Properties of the AMM functions, checked under SpecAmm.                 *)

RIn == amm_in.reserve_a
ROut == amm_in.reserve_b
Fee == amm_in.fee_rate
ValidPool == RGt(RIn, Zero) /\ RGt(ROut, Zero)
FeeInUnit == RGe(Fee, Zero) /\ RLt(Fee, One)
CallsOf(fn) == {i \in 1..Len(amm_calls) : amm_calls[i].fn = fn}
Near(x, y, tol) == RLt(RAbs(RSub(x, y)), tol)
ScenarioPool == RIn = Dec(1000) /\ ROut = Dec(2000)

\* C1: for amount_in > 0, positive reserves and a fee in [0,1) the output
\* function returns amount_in*(1-fee)*reserve_out / (reserve_in +
\* amount_in*(1-fee)); pool (1000, 2000) with amount_in 100 yields 181.322 at
\* fee 0.003 and 181.818 at fee 0, each within 0.01.
C1_OutputFormula ==
    \A i \in CallsOf("output") :
        LET c == amm_calls[i]
            net == RMul(c.arg, RSub(One, Fee))
        IN  (RGt(c.arg, Zero) /\ ValidPool /\ FeeInUnit) =>
            /\ c.res.kind = "value"
            /\ RMul(c.res.val, RAdd(RIn, net)) = RMul(net, ROut)
            /\ (ScenarioPool /\ c.arg = Dec(100) /\ Fee = Frac(3, 1000))
                  => Near(c.res.val, Frac(181322, 1000), Frac(1, 100))
            /\ (ScenarioPool /\ c.arg = Dec(100) /\ Fee = Zero)
                  => Near(c.res.val, Frac(181818, 1000), Frac(1, 100))

C1_Witness ==
    /\ Len(amm_calls) = 1
    /\ amm_calls[1].fn = "output"
    /\ amm_calls[1].arg = Dec(100)
    /\ ScenarioPool
    /\ Fee = Frac(3, 1000)
    /\ amm_calls[1].res.kind = "value"

C4_InputInvalidReserves ==
    \A i \in CallsOf("input") :
        LET c == amm_calls[i]
        IN  (RGt(c.arg, Zero) /\ (RLe(RIn, Zero) \/ RLe(ROut, Zero)))
              => c.res.kind = "InvalidReserves"

\* C5: for positive reserves the input function returns 0 for every
\* amount_out <= 0 and fails with ExceedsReserve for every amount_out >=
\* reserve_out, the whole reserve included.
C5_InputEdges ==
    \A i \in CallsOf("input") :
        LET c == amm_calls[i]
        IN  ValidPool =>
            /\ RLe(c.arg, Zero) => c.res = Ret(Zero)
            /\ RGe(c.arg, ROut) => c.res.kind = "ExceedsReserve"

C5_Witness ==
    /\ Len(amm_calls) = 1
    /\ amm_calls[1].fn = "input"
    /\ ValidPool
    /\ amm_calls[1].arg = ROut
    /\ amm_calls[1].res.kind = "ExceedsReserve"

\* C6: the output function returns 0 for every amount_in <= 0, whatever the
\* reserves, and for amount_in > 0 it raises InvalidReserves exactly when
\* reserve_in <= 0 or reserve_out <= 0.
C6_OutputEdges ==
    \A i \in CallsOf("output") :
        LET c == amm_calls[i]
        IN  /\ RLe(c.arg, Zero) => c.res = Ret(Zero)
            /\ RGt(c.arg, Zero) =>
                  (c.res.kind = "InvalidReserves" <=> (RLe(RIn, Zero) \/ RLe(ROut, Zero)))

C6_Witness ==
    /\ Len(amm_calls) = 1
    /\ amm_calls[1].fn = "output"
    /\ RLe(amm_calls[1].arg, Zero)
    /\ RLe(RIn, Zero)
    /\ amm_calls[1].res = Ret(Zero)

\* The reserves get_swap_quote is to use for the token of the call.
QuoteIn == IF amm_in.token = "PIRATE" THEN amm_in.reserve_b ELSE amm_in.reserve_a
QuoteOut == IF amm_in.token = "PIRATE" THEN amm_in.reserve_a ELSE amm_in.reserve_b
QuotePoolValid == RGt(QuoteIn, Zero) /\ RGt(QuoteOut, Zero)
BothQuoted == amm_quote.kind = "value" /\ amm_quote2.kind = "value"
\* Of two quotes, the one for the larger amount has the strictly higher
\* price impact and the strictly lower effective price.
LargerIsWorse(small, large) ==
    /\ RLess(small.price_impact, large.price_impact)
    /\ RLess(large.effective_price, small.effective_price)

---------------------------------------------------------------------------
(* Properties of the swaps applied to a pool, checked under SpecPool.      *)

\* x * y, exactly: the product is not rounded.
DTimes(x, y) ==
    IF x.sign = 0 \/ y.sign = 0 THEN DZero
    ELSE DNorm(x.sign * y.sign, CoefMul(x.coef, y.coef), x.exp + y.exp)
\* x * 10^k, exactly
DScale(x, k) == IF x.sign = 0 THEN DZero ELSE [x EXCEPT !.exp = @ + k]
\* x + y and x - y, exactly
DPlus(x, y) ==
    LET e == IF x.exp < y.exp THEN x.exp ELSE y.exp
        a == CoefStrip(x.coef \o Zeros(x.exp - e))
        b == CoefStrip(y.coef \o Zeros(y.exp - e))
    IN  IF x.sign = 0 THEN y
        ELSE IF y.sign = 0 THEN x
        ELSE IF x.sign = y.sign THEN DNorm(x.sign, CoefAdd(a, b), e)
        ELSE IF CoefCmp(a, b) = 0 THEN DZero
        ELSE IF CoefCmp(a, b) > 0 THEN DNorm(x.sign, CoefSub(a, b), e)
        ELSE DNorm(y.sign, CoefSub(b, a), e)
DMinus(x, y) == DPlus(x, [y EXCEPT !.sign = -@])

PositivePool(r) == DGt(r.reserve_token_a, DZero) /\ DGt(r.reserve_token_b, DZero)
\* reserve_a * reserve_b
Product(r) == DTimes(r.reserve_token_a, r.reserve_token_b)
\* amount_in is at most 9 times the reserve it is added to.
ModerateSwap(sw) ==
    DLe(sw.quote.amount_in,
        DTimes(DInt(9), IF sw.token_in = "COSA" THEN sw.before.reserve_token_a
                        ELSE sw.before.reserve_token_b))
AppliedSwaps ==
    {i \in 1..Len(pool_swaps) :
        pool_swaps[i].applied /\ DGt(pool_swaps[i].quote.amount_in, DZero)}

\* after >= before, and after = before when the fee is zero
NotBelowAndSame(after, before, fee_rate) ==
    /\ DGe(after, before)
    /\ fee_rate = DZero => after = before
\* after >= before * (1 - 10^-26), and after <= before * (1 + 10^-26) when
\* the fee is zero
WithinRounding(after, before, fee_rate) ==
    /\ DGe(after, DMinus(before, DScale(before, -26)))
    /\ fee_rate = DZero => DLe(after, DPlus(before, DScale(before, -26)))

RoundTripDone == pool_in.driver = "roundtrip" /\ Len(pool_swaps) = 2
RoundTripScenario ==
    /\ pool_in.reserve_a = DInt(1000)
    /\ pool_in.reserve_b = DInt(1000)
    /\ pool_in.amount = DInt(100)
    /\ pool_in.fee_rate = DDec(3, 3)
\* loss_pct = (x - quote2.amount_out) / x * 100
LossPct ==
    DMul(DQuot(DSub(pool_in.amount, pool_swaps[2].quote.amount_out), pool_in.amount),
         DInt(100))

\* C17: swapping x > 0 of token A for B, updating the reserves, and swapping
\* the B received back in the updated pool returns strictly less than x
\* whenever fee_rate > 0; for x = 100, pool (1000, 1000), fee 0.003 the loss
\* is more than 0.5% and less than 2% of x.
C17_RoundTripLoses ==
    RoundTripDone =>
        /\ pool_swaps[2].quote.kind = "value"
        /\ pool_swaps[2].quote.amount_in = pool_swaps[1].quote.amount_out
        /\ pool_swaps[2].before = pool_swaps[1].after
        /\ DGt(pool_in.fee_rate, DZero) =>
              DLt(pool_swaps[2].quote.amount_out, pool_in.amount)
        /\ RoundTripScenario =>
              /\ DGt(LossPct, DDec(5, 1))
              /\ DLt(LossPct, DInt(2))

C17_Witness ==
    /\ RoundTripDone
    /\ RoundTripScenario
    /\ pool_now.reserve_token_a = DInt(1100)
    /\ DGt(pool_swaps[2].quote.amount_out, DInt(99))

---------------------------------------------------------------------------
(* Properties of the polling loop, checked under Spec.                     *)

HasEvent(e) == \E i \in 1..Len(trace) : trace[i] = e
IsFetch(e) == e \in {"fetch_ok", "fetch_fail"}
IsSubmit(e) == e \in {"submit_ok", "submit_fail"}
Keep == RSub(One, config.fee_rate)
PriceAB == DictGet(prices, config.pair_ab)
PriceBC == DictGet(prices, config.pair_bc)
PriceAC == DictGet(prices, config.pair_ac)
\* The profit ratio of the cycle in closed form: p_ab*p_ac*(1-fee)^3/p_bc - 1.
ExpectedRatio ==
    RSub(RDiv(RMul(RMul(PriceAB, PriceAC), RMul(Keep, RMul(Keep, Keep))), PriceBC), One)

\* C7: the decision of a cycle is execute exactly when the profit ratio of
\* that cycle's three prices is >= min_profitability (equality executes),
\* whatever the previous cycle's outcome was.
C7_DecisionAtThreshold ==
    eval.decision # "none" =>
        /\ Cardinality(prices) = 3
        /\ PriceBC # Zero
        /\ eval.decision = "execute" <=> RGe(ExpectedRatio, config.min_profitability)
        /\ eval.decision = "skip" <=> RLt(ExpectedRatio, config.min_profitability)

C7_Witness ==
    /\ cycle_count = 2
    /\ last_outcome = "skipped"
    /\ eval.decision = "execute"
    /\ eval.profit_ratio = config.min_profitability

\* C8: the simulated final amount is trade_amount_a * p_ab * (1-fee) *
\* (1/p_bc) * (1-fee) * p_ac * (1-fee): pair_ab and pair_ac direct, pair_bc
\* inverted, one fee per hop; profit = final - trade_amount_a and
\* profit_ratio = profit / trade_amount_a.
C8_SimulatedAmount ==
    eval.stage \in {"simulated", "decided"} =>
        /\ eval.step1 = PriceAB
        /\ RMul(eval.step2, PriceBC) = One
        /\ eval.step3 = PriceAC
        /\ RMul(eval.amount, PriceBC) =
              RMul(RMul(RMul(config.trade_amount_a, PriceAB), PriceAC),
                   RMul(Keep, RMul(Keep, Keep)))
        /\ eval.profit = RSub(eval.amount, config.trade_amount_a)
        /\ RMul(eval.profit_ratio, config.trade_amount_a) = eval.profit

C8_Witness ==
    /\ eval.stage = "simulated"
    /\ config.fee_rate = Frac(1, 10)
    /\ PriceAB = Dec(100)
    /\ PriceBC = Frac(1, 10)
    /\ PriceAC = Dec(1200)

\* What holds in a cycle in which a fetch has failed.
C9_Abandoned ==
    HasEvent("fetch_fail") =>
        /\ eval = NoEval
        /\ orders = <<>>
        /\ \A i \in 1..Len(trace) : trace[i] \in {"fetch_ok", "fetch_fail", "sleep"}
        /\ pc \in {"fetch", "sleep_fail", "check_len", "loop_top", "stopped"}
        /\ pc = "loop_top" => (HasEvent("sleep") /\ last_outcome = "abandoned")
        /\ (pc = "loop_top" /\ cycle_count < MaxCycles) => ENABLED StartCycle

\* The step that leaves an abandoned cycle starts the next one afresh.
C9_NextCycle ==
    (pc = "loop_top" /\ HasEvent("fetch_fail") /\ pc' \notin {"loop_top", "stopped"})
      => /\ pc' = "fetch"
         /\ fetch_idx' = 1
         /\ prices' = {}
         /\ trace' = <<>>
         /\ cycle_count' = cycle_count + 1

\* C9: a cycle in which a price fetch fails is abandoned: no rates, profit,
\* confirmation or order in it; the loop does not end, it sleeps and then
\* starts a new cycle with an empty price table.
C9_FailedFetchAbandonsCycle == []C9_Abandoned /\ [][C9_NextCycle]_vars

C9_Witness ==
    /\ HasEvent("fetch_fail")
    /\ HasEvent("fetch_ok")
    /\ pc = "loop_top"
    /\ cycle_count < MaxCycles

\* C10: every order of a cycle comes after the three fetches, the rates, the
\* simulation, the decision (execute) and the confirmation, in that order;
\* the legs are sell pair_ab, buy pair_bc, sell pair_ac, each submitted only
\* after the one before returned, and no price is fetched after a submission.
C10_CycleOrder ==
    /\ \A k \in 1..Len(trace) :
          IsSubmit(trace[k]) =>
              /\ k \in 8..10
              /\ SubSeq(trace, 1, 7) = <<"fetch_ok", "fetch_ok", "fetch_ok", "rates",
                                         "simulate", "decide", "prompt">>
              /\ \A j \in 8..(k - 1) : trace[j] = "submit_ok"
              /\ \A j \in (k + 1)..Len(trace) : ~IsFetch(trace[j])
              /\ eval.decision = "execute"
              /\ Lower(eval.response) \in {"yes", "y"}
    /\ Len(orders) = Cardinality({k \in 1..Len(trace) : IsSubmit(trace[k])})
    /\ \A k \in 1..Len(orders) :
          /\ orders[k].symbol = PairAt(config, k)
          /\ orders[k].side = <<"sell", "buy", "sell">>[k]
    /\ pc \in {"leg1", "leg2", "leg3"} =>
          /\ Len(orders) = LegOf(pc) - 1
          /\ Len(trace) = 7 + Len(orders)

C10_Witness ==
    /\ Len(orders) = 3
    /\ Len(trace) = 10
    /\ trace[10] = "submit_ok"
    /\ pc = "sleep_end"

\* A submission failed after at least one leg of the cycle had succeeded.
PartialFailure ==
    \E k \in 9..Len(trace) : trace[k] = "submit_fail" /\ trace[k - 1] = "submit_ok"

\* C11: when leg 2 or leg 3 fails after an earlier leg succeeded, what
\* execute_arbitrage returns is neither the value of a success ("True") nor
\* the value of a failure in which no leg completed ("False", the return of
\* a failed first leg): it is a value of its own that tells which legs
\* completed.
C11_PartialFailureDistinct ==
    PartialFailure => eval.executed \notin {"True", "False"}

\* C12: after a failed submission no further order is submitted in that
\* cycle: the failed leg is not retried, the remaining legs are not
\* submitted, no rollback order is placed; the cycle only sleeps.
C12_NoOrderAfterFailure ==
    \A k \in 1..Len(trace) :
        trace[k] = "submit_fail" =>
            /\ \A j \in (k + 1)..Len(trace) : trace[j] = "sleep"
            /\ Len(orders) = k - 7
            /\ pc \in {"sleep_end", "loop_top", "stopped"}
            /\ eval.executed = "False"

C12_Witness ==
    /\ Len(trace) = 10
    /\ trace[8] = "submit_ok"
    /\ trace[9] = "submit_fail"
    /\ trace[10] = "sleep"
    /\ Len(orders) = 2
    /\ pc = "loop_top"

\* C13: whenever the cycle is profitable (ETH/USDT = 100, ETH/BTC = 0.1,
\* BTC/USDT = 1200, trade 100, fee 0, threshold 0.05 is one such cycle) the
\* legs are executed without the operator being prompted: input() is not
\* called between the decision and the first order.
C13_ExecutesWithoutPrompt ==
    eval.decision = "execute" => (pc # "prompt" /\ ~HasEvent("prompt"))

---------------------------------------------------------------------------
(* Properties of the order-size helpers, checked under SpecPricing.        *)

Called(i, fn) == i \in 1..Len(px_calls) /\ px_calls[i].fn = fn
\* A whole number: no digit after the point.
IsWhole(d) == d.exp >= 0
\* price > 0 and price * (1 - fee_rate) > 0
MeetablePrice ==
    /\ DGt(ToDecimal(px_in.price), DZero)
    /\ DGt(DTimes(ToDecimal(px_in.price), DMinus(DOne, ToDecimal(px_in.fee_rate))), DZero)
\* min_notional_usd of the config, 1.0 where the config has none
ConfiguredMinimum ==
    IF px_in.config = {} THEN DInt(1)
    ELSE ToDecimal(DictGet(px_in.config, "min_notional_usd"))

\* C18: for every quantity q and every step > 0, round_up_to_step(q, step)
\* is a whole multiple of step, is at least q, and is less than one step
\* above q (the ceiling of q / step); for every step <= 0 it is q.
C18_RoundUpIsCeiling ==
    Called(1, "round_up_to_step") =>
        LET q == ToDecimal(px_in.quantity)
            step == ToDecimal(px_in.step)
            result == px_calls[1].result
        IN  IF DGt(step, DZero)
            THEN /\ IsWhole(DQuot(result, step))
                 /\ DGe(result, q)
                 /\ DLt(DMinus(result, q), step)
            ELSE result = q

\* C19: for price > 0 and price * (1 - fee_rate) > 0,
\* min_quantity_for_notional returns min_notional / (price * (1 - fee_rate)),
\* the effective_notional of the returned quantity equals min_notional and
\* that of any smaller quantity is below min_notional; otherwise it
\* returns 0.
C19_MinQuantityMeetsNotional ==
    Called(1, "min_quantity_for_notional") =>
        LET returned == px_calls[1].result
            min_notional == ToDecimal(px_in.min_notional)
        IN  IF MeetablePrice
            THEN /\ returned = DQuot(min_notional,
                                     DTimes(ToDecimal(px_in.price),
                                            DMinus(DOne, ToDecimal(px_in.fee_rate))))
                 /\ Called(2, "effective_notional") =>
                       /\ px_calls[2].quantity = returned =>
                             px_calls[2].result = min_notional
                       /\ DLt(px_calls[2].quantity, returned) =>
                             DLt(px_calls[2].result, min_notional)
            ELSE returned = DZero

\* C20: should_skip_notional returns True exactly when quantity * price is
\* below min_notional_usd of the config (1.0 where the config has none; a
\* notional equal to the minimum is not skipped), and the diagnostic is
\* printed in exactly the calls that return True.
C20_SkipsBelowMinimumOnly ==
    /\ Called(1, "should_skip_notional") =>
          /\ px_calls[1].result =
                DLt(DTimes(ToDecimal(px_in.quantity), ToDecimal(px_in.price)),
                    ConfiguredMinimum)
          /\ Len(px_stdout) = IF px_calls[1].result THEN 1 ELSE 0
          /\ \A i \in 1..Len(px_stdout) :
                /\ px_stdout[i].quantity = px_in.quantity
                /\ px_stdout[i].price = px_in.price
                /\ px_stdout[i].notional =
                      DTimes(ToDecimal(px_in.quantity), ToDecimal(px_in.price))
    /\ ~Called(1, "should_skip_notional") => px_stdout = <<>>

\* 0.3 at price 3 with no minimum in the config: 0.9 is below 1.0.
C20_Witness ==
    /\ Called(1, "should_skip_notional")
    /\ px_in.config = {}
    /\ px_in.quantity = DDec(3, 1)
    /\ px_in.price = DInt(3)
    /\ px_calls[1].result = TRUE
    /\ Len(px_stdout) = 1
    /\ px_stdout[1].notional = DDec(9, 1)

---------------------------------------------------------------------------
(* Properties of estimate_optimal_trade_size, checked under SpecSize.      *)

SizeOf(a, b) == DictGet(size_out.dict, DirectionLabel(a, b))
PositiveSizePool == RGt(size_in.reserve_a, Zero) /\ RGt(size_in.reserve_b, Zero)

\* C21: for a pool with distinct symbols A and B the mapping returned has
\* exactly the two keys A_to_B and B_to_A, with the values
\* reserve_a * max_price_impact and reserve_b * max_price_impact, whatever
\* the fee_rate.
C21_TwoDirections ==
    (size_out.kind = "value" /\ size_in.symbol_a # size_in.symbol_b) =>
        /\ Cardinality(size_out.dict) = 2
        /\ {e[1] : e \in size_out.dict} =
              {DirectionLabel(size_in.symbol_a, size_in.symbol_b),
               DirectionLabel(size_in.symbol_b, size_in.symbol_a)}
        /\ SizeOf(size_in.symbol_a, size_in.symbol_b) =
              RMul(size_in.reserve_a, size_in.max_price_impact)
        /\ SizeOf(size_in.symbol_b, size_in.symbol_a) =
              RMul(size_in.reserve_b, size_in.max_price_impact)

\* C22: for a pool with positive reserves and max_price_impact = 1.0, the
\* size of each direction is above 0 and below 10% of the reserve of the
\* token swapped in.
C22_SmallFractionOfReserve ==
    (size_out.kind = "value" /\ PositiveSizePool /\ size_in.max_price_impact = One) =>
        /\ RGt(SizeOf(size_in.symbol_a, size_in.symbol_b), Zero)
        /\ RGt(SizeOf(size_in.symbol_b, size_in.symbol_a), Zero)
        /\ RLess(SizeOf(size_in.symbol_a, size_in.symbol_b),
                 RMul(size_in.reserve_a, Frac(1, 10)))
        /\ RLess(SizeOf(size_in.symbol_b, size_in.symbol_a),
                 RMul(size_in.reserve_b, Frac(1, 10)))

\* C23: for a pool with positive reserves, fee_rate in [0, 1) and
\* max_price_impact in (0, 1), the quote for a swap of the estimated size
\* reports a price_impact that, as a fraction, is at most max_price_impact
\* (stated for the pools whose two directions have two labels).
C23_EstimatedSizeStaysUnderImpact ==
    (/\ size_quote.quote.kind # "none"
     /\ Cardinality(size_out.dict) = 2
     /\ PositiveSizePool
     /\ RGe(size_in.fee_rate, Zero) /\ RLess(size_in.fee_rate, One)
     /\ RGt(size_in.max_price_impact, Zero) /\ RLess(size_in.max_price_impact, One)) =>
        /\ size_quote.quote.kind = "value"
        /\ ~RLess(size_in.max_price_impact, RDiv(size_quote.quote.price_impact, Hundred))

---------------------------------------------------------------------------
(* Properties of the orders of the polling loop, checked under Spec.       *)

\* quantity * price of the k-th order of the cycle, at the price fetched
\* for its pair
OrderNotional(k) == RMul(orders[k].quantity, DictGet(prices, orders[k].symbol))

\* C24: every order submitted has a notional, quantity * price, of at
\* least the min_notional_usd of the configuration: no leg below it is sent
\* to the order API.
C24_NoOrderBelowMinNotional ==
    \A k \in 1..Len(orders) : ~RLess(OrderNotional(k), config.min_notional_usd)

Sleeps == Cardinality({k \in 1..Len(trace) : trace[k] = "sleep"})

\* C25: a cycle that has ended (the loop is back at its top) has slept
\* exactly once, whatever the fetch outcomes, the decision and the pair
\* names; and no price is fetched in a cycle after its first failed fetch.
C25_OneSleepPerCycle ==
    /\ (pc = "loop_top" /\ cycle_count > 0) => Sleeps = 1
    /\ \A k \in 1..Len(trace) :
          trace[k] = "fetch_fail" => \A j \in (k + 1)..Len(trace) : ~IsFetch(trace[j])

---------------------------------------------------------------------------
(* Properties of the failures of the AMM functions, checked under SpecAmm. *)

\* How a call may end: not made yet, a value, or one of the three errors
\* of the pricing engine.
PricingEngineOutcomes == {"none", "value", "InvalidReserves", "ExceedsReserve", "UnknownToken"}

\* C27: every call of calculate_constant_product_output,
\* calculate_constant_product_input, get_swap_quote and
\* calculate_pool_spot_price returns a value or fails with InvalidReserves,
\* ExceedsReserve or UnknownToken, and with no other failure.
C27_OnlyPricingEngineErrors ==
    /\ \A i \in 1..Len(amm_calls) : amm_calls[i].res.kind \in PricingEngineOutcomes
    /\ amm_quote.kind \in PricingEngineOutcomes
    /\ amm_quote2.kind \in PricingEngineOutcomes
    /\ amm_spot.kind \in PricingEngineOutcomes

---------------------------------------------------------------------------
(* Properties of the list of open orders, checked under SpecOm.            *)

Tracked(open, order_id) == \E i \in 1..Len(open) : open[i].order_id = order_id

\* C26: after any sequence of submit, track, replace and cancel on an empty
\* OrderManager no two open orders have the same order_id, and a submit or
\* track of an order whose id is already tracked raises ValueError and
\* leaves open_orders as it was.
C26_UniqueOrderIds ==
    /\ \A i, j \in 1..Len(open_orders) :
          open_orders[i].order_id = open_orders[j].order_id => i = j
    /\ (om_last.op \in {"submit", "track"}
        /\ Tracked(om_last.before, om_last.arg.order_id))
       => (om_last.kind = "ValueError" /\ open_orders = om_last.before)

---------------------------------------------------------------------------
(* Properties of the risk checks, checked under SpecRisk.                  *)

\* The size is within the order limits and the exposure, taken without the
\* signs, within the exposure limit.
WithinLimits(lim, amount, current_exposure) ==
    /\ lim.min_order_size <= amount
    /\ amount <= lim.max_order_size
    /\ \E e \in {current_exposure, -current_exposure}, a \in {amount, -amount} :
          e >= 0 /\ a >= 0 /\ e + a <= lim.max_exposure

\* C28: while the kill switch is triggered allows_order returns False for
\* every amount and exposure; otherwise it returns True exactly when
\* min_order_size <= amount <= max_order_size and
\* |current_exposure| + |amount| <= max_exposure; the call changes neither
\* the kill switch nor the limits.
C28_AllowsOrder ==
    risk_last.op = "allows_order" =>
        /\ risk_last.result =
              (~risk_last.triggered
               /\ WithinLimits(risk_last.limits, risk_last.amount,
                               risk_last.current_exposure))
        /\ kill_switch_triggered = risk_last.triggered
        /\ limits = risk_last.limits

\* The kill switch triggered, allows_order has refused an order that the
\* limits alone allow: a negative exposure, the projected exposure at the
\* limit.
C28_Witness ==
    /\ risk_last.op = "allows_order"
    /\ kill_switch_triggered
    /\ ~risk_last.result
    /\ risk_last.current_exposure < 0
    /\ risk_last.amount > 0
    /\ risk_last.amount >= limits.min_order_size
    /\ risk_last.amount <= limits.max_order_size
    /\ Abs(risk_last.current_exposure) + risk_last.amount = limits.max_exposure

=============================================================================
